---- MODULE Spec2Model ----
(***************************************************************************)
(* Model of the gcosmos Rust gRPC client (gcosmos/rust/src/main.rs).       *)
(*                                                                         *)
(* main prints a banner, connects to a fixed endpoint, sends one empty     *)
(* CurrentBlockRequest to get_blocks_watermark, prints the response and    *)
(* returns.  Both awaits are unwrapped, so an Err panics the process.      *)
(*                                                                         *)
(* Several independent runs of the program are modelled side by side so    *)
(* that runs can be compared with each other.  The remote endpoint is the  *)
(* environment: it answers a pending connect and a pending call with any   *)
(* of the outcomes the transport can produce.                              *)
(***************************************************************************)
EXTENDS Integers, Sequences, FiniteSets, TLC

\* ---------------------------------------------------------------- bounds
MaxRuns == 2
MaxWatermark == 2

Runs == 1..MaxRuns

\* ------------------------------------------------------- program literals
Endpoint == "http://127.0.0.1:9092"
Method == "get_blocks_watermark"
Banner == <<"Clients!">>
ResponsePrefix == "RESPONSE="
EmptyRequest == [type |-> "CurrentBlockRequest", fields |-> <<>>]
ExitSuccess == 0
ExitPanic == 101

\* ------------------------------------------------ outcomes of the awaits
ConnectErrors == {"unreachable", "refused", "handshake_failed"}
ConnectOutcomes == {"ok"} \cup ConnectErrors
CallErrors == {"app_error", "undecodable", "channel_dropped"}
Responses == [watermark : 0..MaxWatermark]
NoReply == [kind |-> "none", body |-> <<>>]
CallOutcomes ==
    {[kind |-> "ok", body |-> <<resp>>] : resp \in Responses}
        \cup {[kind |-> e, body |-> <<>>] : e \in CallErrors}

\* The derived Debug pretty-printer ({:#?}) of the response structure.
DebugPretty(resp) ==
    <<"CurrentBlockResponse", "{", "watermark", ":", ToString(resp.watermark), ",", "}">>

\* println!("RESPONSE={:#?}", resp)
Render(resp) == <<ResponsePrefix>> \o DebugPretty(resp)

\* The panic message of Result::unwrap on an Err value.
PanicMessage(err) == <<"called Result::unwrap() on an Err value", err>>

IsResponseLine(line) == Len(line) > 0 /\ line[1] = ResponsePrefix

\* ------------------------------------------------------------------ state
VARIABLES pc, stdout, stderr, connects, conn, sent, connReply, callReply, resp, exit

vars == <<pc, stdout, stderr, connects, conn, sent, connReply, callReply, resp, exit>>

Init ==
    /\ pc = [r \in Runs |-> "Start"]
    /\ stdout = [r \in Runs |-> <<>>]
    /\ stderr = [r \in Runs |-> <<>>]
    /\ connects = [r \in Runs |-> <<>>]
    /\ conn = [r \in Runs |-> <<>>]
    /\ sent = [r \in Runs |-> <<>>]
    /\ connReply = [r \in Runs |-> "none"]
    /\ callReply = [r \in Runs |-> NoReply]
    /\ resp = [r \in Runs |-> <<>>]
    /\ exit = [r \in Runs |-> <<>>]

\* main.rs 6-8: print the banner, then start connecting to the literal address.
Connect(r) ==
    /\ pc[r] = "Start"
    /\ stdout' = [stdout EXCEPT ![r] = Append(@, Banner)]
    /\ connects' = [connects EXCEPT ![r] = Append(@, Endpoint)]
    /\ pc' = [pc EXCEPT ![r] = "Connecting"]
    /\ UNCHANGED <<stderr, conn, sent, connReply, callReply, resp, exit>>

\* The transport resolves the pending connect future.
ConnectAnswer(r) ==
    /\ pc[r] = "Connecting"
    /\ connReply[r] = "none"
    /\ \E a \in ConnectOutcomes : connReply' = [connReply EXCEPT ![r] = a]
    /\ UNCHANGED <<pc, stdout, stderr, connects, conn, sent, callReply, resp, exit>>

\* Variant of ConnectReturn that reconnects once after a failed connect.
ConnectReturnRetry(r) ==
    /\ pc[r] = "Connecting"
    /\ connReply[r] # "none"
    /\ IF connReply[r] = "ok"
         THEN /\ conn' = [conn EXCEPT ![r] = <<connects[r][Len(connects[r])]>>]
              /\ pc' = [pc EXCEPT ![r] = "Connected"]
              /\ UNCHANGED <<stderr, exit, connects, connReply>>
         ELSE IF Len(connects[r]) < 2
         THEN /\ connects' = [connects EXCEPT ![r] = Append(@, Endpoint)]
              /\ connReply' = [connReply EXCEPT ![r] = "none"]
              /\ UNCHANGED <<stderr, exit, conn, pc>>
         ELSE /\ stderr' = [stderr EXCEPT ![r] = Append(@, PanicMessage(connReply[r]))]
              /\ exit' = [exit EXCEPT ![r] = <<ExitPanic>>]
              /\ pc' = [pc EXCEPT ![r] = "Failed"]
              /\ UNCHANGED <<conn, connects, connReply>>
    /\ UNCHANGED <<stdout, sent, callReply, resp>>

\* Variant of ConnectReturn that ignores a failed connect and carries on.
ConnectReturnIgnoreErr(r) ==
    /\ pc[r] = "Connecting"
    /\ connReply[r] # "none"
    /\ conn' = [conn EXCEPT ![r] = <<connects[r][Len(connects[r])]>>]
    /\ pc' = [pc EXCEPT ![r] = "Connected"]
    /\ UNCHANGED <<stdout, stderr, exit, connects, sent, connReply, callReply, resp>>

\* Variant of ConnectReturn that goes back to the start after a failed connect.
ConnectReturnRestart(r) ==
    /\ pc[r] = "Connecting"
    /\ connReply[r] # "none"
    /\ IF connReply[r] = "ok"
         THEN /\ conn' = [conn EXCEPT ![r] = <<connects[r][Len(connects[r])]>>]
              /\ pc' = [pc EXCEPT ![r] = "Connected"]
              /\ UNCHANGED <<stderr, exit, connReply>>
         ELSE IF Len(connects[r]) < 2
         THEN /\ connReply' = [connReply EXCEPT ![r] = "none"]
              /\ pc' = [pc EXCEPT ![r] = "Start"]
              /\ UNCHANGED <<stderr, exit, conn>>
         ELSE /\ stderr' = [stderr EXCEPT ![r] = Append(@, PanicMessage(connReply[r]))]
              /\ exit' = [exit EXCEPT ![r] = <<ExitPanic>>]
              /\ pc' = [pc EXCEPT ![r] = "Failed"]
              /\ UNCHANGED <<conn, connReply>>
    /\ UNCHANGED <<stdout, connects, sent, callReply, resp>>

\* Variant of ConnectReturn that waits for another answer after a failed connect.
ConnectReturnSpin(r) ==
    /\ pc[r] = "Connecting"
    /\ connReply[r] # "none"
    /\ IF connReply[r] = "ok"
         THEN /\ conn' = [conn EXCEPT ![r] = <<connects[r][Len(connects[r])]>>]
              /\ pc' = [pc EXCEPT ![r] = "Connected"]
              /\ UNCHANGED connReply
         ELSE /\ connReply' = [connReply EXCEPT ![r] = "none"]
              /\ UNCHANGED <<conn, pc>>
    /\ UNCHANGED <<stdout, stderr, exit, connects, sent, callReply, resp>>

\* main.rs 8: .await.unwrap() on the connect result.
ConnectReturn(r) ==
    /\ pc[r] = "Connecting"
    /\ connReply[r] # "none"
    /\ IF connReply[r] = "ok"
         THEN /\ conn' = [conn EXCEPT ![r] = <<connects[r][Len(connects[r])]>>]
              /\ pc' = [pc EXCEPT ![r] = "Connected"]
              /\ UNCHANGED <<stderr, exit>>
         ELSE /\ stderr' = [stderr EXCEPT ![r] = Append(@, PanicMessage(connReply[r]))]
              /\ exit' = [exit EXCEPT ![r] = <<ExitPanic>>]
              /\ pc' = [pc EXCEPT ![r] = "Failed"]
              /\ UNCHANGED conn
    /\ UNCHANGED <<stdout, connects, sent, connReply, callReply, resp>>

\* Variant of Invoke whose request depends on how many runs have connected.
InvokeVarying(r) ==
    /\ pc[r] = "Connected"
    /\ sent' = [sent EXCEPT ![r] =
                  Append(@, [endpoint |-> conn[r][1], method |-> Method,
                             payload |-> [type |-> "CurrentBlockRequest",
                                          fields |-> IF \A q \in Runs : connReply[q] = "ok"
                                                       THEN <<"all">> ELSE <<>>]])]
    /\ pc' = [pc EXCEPT ![r] = "Calling"]
    /\ UNCHANGED <<stdout, stderr, connects, conn, connReply, callReply, resp, exit>>

\* main.rs 10-12: build the empty request and send it on the connection.
Invoke(r) ==
    /\ pc[r] = "Connected"
    /\ sent' = [sent EXCEPT ![r] =
                  Append(@, [endpoint |-> conn[r][1], method |-> Method, payload |-> EmptyRequest])]
    /\ pc' = [pc EXCEPT ![r] = "Calling"]
    /\ UNCHANGED <<stdout, stderr, connects, conn, connReply, callReply, resp, exit>>

\* The remote endpoint (or the transport) resolves the pending call future.
CallAnswer(r) ==
    /\ pc[r] = "Calling"
    /\ callReply[r] = NoReply
    /\ \E a \in CallOutcomes : callReply' = [callReply EXCEPT ![r] = a]
    /\ UNCHANGED <<pc, stdout, stderr, connects, conn, sent, connReply, resp, exit>>

\* Variant of InvokeReturn that prints a default response instead of the one received.
InvokeReturnStale(r) ==
    /\ pc[r] = "Calling"
    /\ callReply[r] # NoReply
    /\ IF callReply[r].kind = "ok"
         THEN /\ resp' = [resp EXCEPT ![r] = callReply[r].body]
              /\ stdout' = [stdout EXCEPT ![r] = Append(@, Render([watermark |-> 0]))]
              /\ exit' = [exit EXCEPT ![r] = <<ExitSuccess>>]
              /\ pc' = [pc EXCEPT ![r] = "Succeeded"]
              /\ UNCHANGED stderr
         ELSE /\ stderr' = [stderr EXCEPT ![r] = Append(@, PanicMessage(callReply[r].kind))]
              /\ exit' = [exit EXCEPT ![r] = <<ExitPanic>>]
              /\ pc' = [pc EXCEPT ![r] = "Failed"]
              /\ UNCHANGED <<stdout, resp>>
    /\ UNCHANGED <<connects, conn, sent, connReply, callReply>>

\* Variant of InvokeReturn that re-sends the request once after a failed call.
InvokeReturnResend(r) ==
    /\ pc[r] = "Calling"
    /\ callReply[r] # NoReply
    /\ IF callReply[r].kind = "ok"
         THEN /\ resp' = [resp EXCEPT ![r] = callReply[r].body]
              /\ stdout' = [stdout EXCEPT ![r] = Append(@, Render(callReply[r].body[1]))]
              /\ exit' = [exit EXCEPT ![r] = <<ExitSuccess>>]
              /\ pc' = [pc EXCEPT ![r] = "Succeeded"]
              /\ UNCHANGED <<stderr, sent, callReply>>
         ELSE IF Len(sent[r]) < 2
         THEN /\ sent' = [sent EXCEPT ![r] = Append(@, sent[r][1])]
              /\ callReply' = [callReply EXCEPT ![r] = NoReply]
              /\ UNCHANGED <<stdout, stderr, exit, pc, resp>>
         ELSE /\ stderr' = [stderr EXCEPT ![r] = Append(@, PanicMessage(callReply[r].kind))]
              /\ exit' = [exit EXCEPT ![r] = <<ExitPanic>>]
              /\ pc' = [pc EXCEPT ![r] = "Failed"]
              /\ UNCHANGED <<stdout, resp, sent, callReply>>
    /\ UNCHANGED <<connects, conn, connReply>>

\* Variant of InvokeReturn that prints the response line before unwrapping.
InvokeReturnEchoFirst(r) ==
    /\ pc[r] = "Calling"
    /\ callReply[r] # NoReply
    /\ IF callReply[r].kind = "ok"
         THEN /\ resp' = [resp EXCEPT ![r] = callReply[r].body]
              /\ stdout' = [stdout EXCEPT ![r] = Append(@, Render(callReply[r].body[1]))]
              /\ exit' = [exit EXCEPT ![r] = <<ExitSuccess>>]
              /\ pc' = [pc EXCEPT ![r] = "Succeeded"]
              /\ UNCHANGED stderr
         ELSE /\ stdout' = [stdout EXCEPT ![r] = Append(@, <<ResponsePrefix, "Err", callReply[r].kind>>)]
              /\ stderr' = [stderr EXCEPT ![r] = Append(@, PanicMessage(callReply[r].kind))]
              /\ exit' = [exit EXCEPT ![r] = <<ExitPanic>>]
              /\ pc' = [pc EXCEPT ![r] = "Failed"]
              /\ UNCHANGED resp
    /\ UNCHANGED <<connects, conn, sent, connReply, callReply>>

\* Variant of InvokeReturn that also prints which run it is.
InvokeReturnTagged(r) ==
    /\ pc[r] = "Calling"
    /\ callReply[r] # NoReply
    /\ IF callReply[r].kind = "ok"
         THEN /\ resp' = [resp EXCEPT ![r] = callReply[r].body]
              /\ stdout' = [stdout EXCEPT ![r] =
                                Append(@, Render(callReply[r].body[1]) \o <<ToString(r)>>)]
              /\ exit' = [exit EXCEPT ![r] = <<ExitSuccess>>]
              /\ pc' = [pc EXCEPT ![r] = "Succeeded"]
              /\ UNCHANGED stderr
         ELSE /\ stderr' = [stderr EXCEPT ![r] = Append(@, PanicMessage(callReply[r].kind))]
              /\ exit' = [exit EXCEPT ![r] = <<ExitPanic>>]
              /\ pc' = [pc EXCEPT ![r] = "Failed"]
              /\ UNCHANGED <<stdout, resp>>
    /\ UNCHANGED <<connects, conn, sent, connReply, callReply>>

\* Variant of InvokeReturn with a deadline: it gives up without waiting for a reply.
InvokeReturnDeadline(r) ==
    /\ pc[r] = "Calling"
    /\ IF callReply[r].kind = "ok"
         THEN /\ resp' = [resp EXCEPT ![r] = callReply[r].body]
              /\ stdout' = [stdout EXCEPT ![r] = Append(@, Render(callReply[r].body[1]))]
              /\ exit' = [exit EXCEPT ![r] = <<ExitSuccess>>]
              /\ pc' = [pc EXCEPT ![r] = "Succeeded"]
              /\ UNCHANGED stderr
         ELSE /\ stderr' = [stderr EXCEPT ![r] = Append(@, PanicMessage(callReply[r].kind))]
              /\ exit' = [exit EXCEPT ![r] = <<ExitPanic>>]
              /\ pc' = [pc EXCEPT ![r] = "Failed"]
              /\ UNCHANGED <<stdout, resp>>
    /\ UNCHANGED <<connects, conn, sent, connReply, callReply>>

\* main.rs 12-14: .await.unwrap() on the call result, print, return from main.
InvokeReturn(r) ==
    /\ pc[r] = "Calling"
    /\ callReply[r] # NoReply
    /\ IF callReply[r].kind = "ok"
         THEN /\ resp' = [resp EXCEPT ![r] = callReply[r].body]
              /\ stdout' = [stdout EXCEPT ![r] = Append(@, Render(callReply[r].body[1]))]
              /\ exit' = [exit EXCEPT ![r] = <<ExitSuccess>>]
              /\ pc' = [pc EXCEPT ![r] = "Succeeded"]
              /\ UNCHANGED stderr
         ELSE /\ stderr' = [stderr EXCEPT ![r] = Append(@, PanicMessage(callReply[r].kind))]
              /\ exit' = [exit EXCEPT ![r] = <<ExitPanic>>]
              /\ pc' = [pc EXCEPT ![r] = "Failed"]
              /\ UNCHANGED <<stdout, resp>>
    /\ UNCHANGED <<connects, conn, sent, connReply, callReply>>

Next ==
    \E r \in Runs :
        \/ Connect(r)
        \/ ConnectAnswer(r)
        \/ ConnectReturn(r)
        \/ Invoke(r)
        \/ CallAnswer(r)
        \/ InvokeReturn(r)

Spec == Init /\ [][Next]_vars

\* The runtime keeps polling the task and the environment answers every
\* pending connect and call.
Fairness ==
    \A r \in Runs :
        /\ WF_vars(Connect(r))
        /\ WF_vars(ConnectAnswer(r))
        /\ WF_vars(ConnectReturn(r))
        /\ WF_vars(Invoke(r))
        /\ WF_vars(CallAnswer(r))
        /\ WF_vars(InvokeReturn(r))

FairSpec == Spec /\ Fairness

Terminal == {"Succeeded", "Failed"}

\* ------------------------------------------------------- derived notions
ResponseLines(r) == {i \in 1..Len(stdout[r]) : IsResponseLine(stdout[r][i])}

ExpectedRequest == [endpoint |-> Endpoint, method |-> Method, payload |-> EmptyRequest]

\* The edges of the path Start -> Connecting -> Connected -> Calling -> {Succeeded, Failed}.
PathEdges ==
    { <<"Start", "Connecting">>, <<"Connecting", "Connected">>, <<"Connected", "Calling">>,
      <<"Calling", "Succeeded">>, <<"Calling", "Failed">> }

RunUnchanged(r) ==
    /\ pc'[r] = pc[r] /\ stdout'[r] = stdout[r] /\ stderr'[r] = stderr[r]
    /\ connects'[r] = connects[r] /\ conn'[r] = conn[r] /\ sent'[r] = sent[r]
    /\ connReply'[r] = connReply[r] /\ callReply'[r] = callReply[r]
    /\ resp'[r] = resp[r] /\ exit'[r] = exit[r]

\* ------------------------------------------------------------------ C1
\* C1 as stated: a terminated run has opened exactly one connection and sent
\* exactly one request, whichever terminal state it reached.
C1_AsStated ==
    \A r \in Runs :
        pc[r] \in Terminal => Len(connects[r]) = 1 /\ Len(conn[r]) = 1 /\ Len(sent[r]) = 1

\* C1 amended: a terminated run has made exactly one connect attempt; it has
\* sent exactly one request if that connect succeeded and none if it failed;
\* no run ever makes more than one connect attempt or sends more than one request.
C1_OneConnectAtMostOneRequest ==
    \A r \in Runs :
        /\ Len(connects[r]) <= 1 /\ Len(sent[r]) <= 1
        /\ pc[r] \in Terminal =>
             /\ Len(connects[r]) = 1
             /\ connReply[r] = "ok" => Len(conn[r]) = 1 /\ Len(sent[r]) = 1
             /\ connReply[r] # "ok" => Len(conn[r]) = 0 /\ Len(sent[r]) = 0

C1_Witness ==
    \E r1, r2 \in Runs :
        /\ pc[r1] = "Failed" /\ connReply[r1] \in ConnectErrors
        /\ pc[r2] = "Succeeded" /\ Len(sent[r2]) = 1

\* ------------------------------------------------------------------ C2
\* C2: once a well-formed response R has been received and handled, the run
\* is Succeeded with exit status 0, and the one RESPONSE line on standard
\* output is the rendering of exactly R, showing R's watermark.
C2_PrintsReceivedResponse ==
    \A r \in Runs :
        (callReply[r].kind = "ok" /\ pc[r] # "Calling") =>
            /\ pc[r] = "Succeeded"
            /\ exit[r] = <<ExitSuccess>>
            /\ resp[r] = callReply[r].body
            /\ Cardinality(ResponseLines(r)) = 1
            /\ LET line == stdout[r][Len(stdout[r])]
                   R == callReply[r].body[1]
               IN /\ line = Render(R)
                  /\ \E i \in 1..Len(line) : line[i] = ToString(R.watermark)
                  /\ \A w \in 0..MaxWatermark :
                        w # R.watermark => \A i \in 1..Len(line) : line[i] # ToString(w)

C2_Witness ==
    \E r \in Runs :
        /\ pc[r] = "Succeeded"
        /\ callReply[r].kind = "ok"
        /\ callReply[r].body[1].watermark = MaxWatermark

\* ------------------------------------------------------------------ C3
\* C3: after a failed connect the run goes nowhere but Failed with non-zero
\* status; it has made one connect attempt, sent no request and printed no
\* RESPONSE line.
C3_ConnectFailureIsFatal ==
    \A r \in Runs :
        connReply[r] \in ConnectErrors =>
            /\ pc[r] \in {"Connecting", "Failed"}
            /\ Len(connects[r]) = 1
            /\ conn[r] = <<>>
            /\ sent[r] = <<>>
            /\ callReply[r] = NoReply
            /\ ResponseLines(r) = {}
            /\ pc[r] = "Failed" => Len(exit[r]) = 1 /\ exit[r][1] # 0

C3_Witness ==
    \E r \in Runs :
        pc[r] = "Failed" /\ connReply[r] = "refused" /\ exit[r] = <<ExitPanic>>

\* ------------------------------------------------------------------ C4
\* C4: after a failed call on an established connection the run goes nowhere
\* but Failed with non-zero status; it has printed no RESPONSE line, sent the
\* request once and connected once.
C4_CallFailureIsFatal ==
    \A r \in Runs :
        callReply[r].kind \in CallErrors =>
            /\ pc[r] \in {"Calling", "Failed"}
            /\ connReply[r] = "ok"
            /\ Len(connects[r]) = 1
            /\ Len(sent[r]) = 1
            /\ resp[r] = <<>>
            /\ ResponseLines(r) = {}
            /\ pc[r] = "Failed" => Len(exit[r]) = 1 /\ exit[r][1] # 0

C4_Witness ==
    \E r \in Runs :
        pc[r] = "Failed" /\ callReply[r].kind = "channel_dropped" /\ exit[r] = <<ExitPanic>>

\* ------------------------------------------------------------------ C5
\* C5 as stated: nothing is on standard output until a response has been
\* received, and a Failed run has written nothing to standard output.
C5_AsStated ==
    \A r \in Runs :
        /\ callReply[r].kind # "ok" => stdout[r] = <<>>
        /\ pc[r] = "Failed" => stdout[r] = <<>>

\* C5 amended: until a response has been received, standard output holds at
\* most the start-up banner line and no RESPONSE line; a Failed run has
\* written exactly the banner line.
C5_OnlyBannerBeforeResponse ==
    \A r \in Runs :
        /\ callReply[r].kind # "ok" =>
              /\ stdout[r] \in {<<>>, <<Banner>>}
              /\ ResponseLines(r) = {}
        /\ pc[r] # "Start" => Len(stdout[r]) >= 1 /\ stdout[r][1] = Banner
        /\ pc[r] = "Failed" => stdout[r] = <<Banner>>

C5_Witness ==
    \E r1, r2 \in Runs :
        /\ pc[r1] = "Failed" /\ callReply[r1].kind \in CallErrors
        /\ pc[r2] = "Failed" /\ connReply[r2] \in ConnectErrors

\* ------------------------------------------------------------------ C6
\* C6 as stated: every change of a run's control state is an edge of the path
\* Start -> Connecting -> Connected -> Calling -> {Succeeded, Failed}.
C6_AsStated ==
    [][\A r \in Runs : pc'[r] # pc[r] => <<pc[r], pc'[r]>> \in PathEdges]_vars

\* C6 amended: every change of a run's control state is an edge of that path
\* or the edge Connecting -> Failed; Connecting is never re-entered, Calling
\* is entered only from Connected with the connection established, and a run
\* in Succeeded or Failed has exited and takes no further step.
C6_ControlPath ==
    [][\A r \in Runs :
          /\ pc'[r] # pc[r] =>
                <<pc[r], pc'[r]>> \in PathEdges \cup {<<"Connecting", "Failed">>}
          /\ (pc'[r] = "Connecting" /\ pc[r] # "Connecting") =>
                pc[r] = "Start" /\ connects[r] = <<>>
          /\ (pc'[r] = "Calling" /\ pc[r] # "Calling") =>
                pc[r] = "Connected" /\ Len(conn[r]) = 1 /\ connReply[r] = "ok"
          /\ pc[r] \in Terminal => RunUnchanged(r) /\ Len(exit[r]) = 1
          /\ pc'[r] \in Terminal => Len(exit'[r]) = 1
          /\ pc'[r] \notin Terminal => exit'[r] = <<>>]_vars

C6_Witness ==
    \E r1, r2 \in Runs :
        /\ pc[r1] = "Succeeded"
        /\ pc[r2] = "Failed" /\ connReply[r2] \in ConnectErrors

C8_ConstantRequest ==
    \A r \in Runs :
        /\ \A i \in 1..Len(connects[r]) : connects[r][i] = "http://127.0.0.1:9092"
        /\ \A i \in 1..Len(sent[r]) :
              /\ sent[r][i] = ExpectedRequest
              /\ sent[r][i].method = "get_blocks_watermark"
              /\ sent[r][i].payload.fields = <<>>

C8_Witness ==
    \A r \in Runs : Len(sent[r]) = 1 /\ pc[r] \in Terminal

\* ------------------------------------------------------------------ C9
\* C9: when every pending connect and call is eventually answered, every run
\* eventually reaches Succeeded or Failed, has exited, and stays there.
C9_EventuallyTerminal ==
    \A r \in Runs : <>[](pc[r] \in Terminal /\ Len(exit[r]) = 1)

C9_Witness ==
    /\ \A r \in Runs : pc[r] \in Terminal /\ Len(exit[r]) = 1
    /\ \E r \in Runs : pc[r] = "Succeeded"
    /\ \E r \in Runs : pc[r] = "Failed"

\* ------------------------------------------------------------------ C10
\* C10: a run leaves Connecting or Calling only in a step that finds the
\* environment's answer; in a step that begins and ends with no answer to
\* the call, a run in Calling stays in Calling, prints nothing and does not exit.
C10_NoTimeout ==
    [][\A r \in Runs :
          /\ (pc[r] = "Connecting" /\ pc'[r] # "Connecting") => connReply[r] # "none"
          /\ (pc[r] = "Calling" /\ pc'[r] # "Calling") => callReply[r] # NoReply
          /\ (pc[r] = "Calling" /\ callReply[r] = NoReply) =>
                /\ pc'[r] = "Calling"
                /\ stdout'[r] = stdout[r]
                /\ stderr'[r] = stderr[r]
                /\ exit'[r] = <<>>]_vars

C10_Witness ==
    \E r1, r2 \in Runs :
        /\ pc[r1] = "Calling" /\ callReply[r1] = NoReply /\ exit[r1] = <<>>
        /\ pc[r2] \in Terminal

====
